---- MODULE Spec2Model ----
(***************************************************************************)
(* Model of the lastlog crate: the utmp/wtmp backward-scan reader          *)
(* (src/src/utmp.rs), the /var/log/lastlog indexed-slot reader             *)
(* (src/src/lastlog.rs), their shared helpers (src/src/common.rs) and the  *)
(* module selection built on os::modules (src/src/compat.rs), and the      *)
(* NetUserEnum reader of Windows (src/src/winapi.rs).                      *)
(*                                                                         *)
(* Text fields are byte sequences.  The fixed widths of the C structs      *)
(* (32 bytes for `line` and `user`) are scaled down to two bytes; the      *)
(* record sizes used for seeking keep their real values.  The `host` field *)
(* and the other fields no reader looks at are not carried.                *)
(***************************************************************************)
EXTENDS Integers, Sequences, FiniteSets, TLC

VARIABLES
    reader,     \* which LoginDB implementation the call goes to
    umap,       \* /etc/passwd as read_passwd_nmap(): name -> uid
    file,       \* utmp file: the entries, oldest first, aligned to end-of-file
    lead,       \* utmp file: bytes in front of the first whole entry
    llog,       \* lastlog file: the whole slots, slot for uid i at index i+1
    ltail,      \* lastlog file: bytes after the last whole slot
    sel,        \* selector: the environment and the stage reached
    accounts,   \* windows: what NetUserEnum returns, status and buffer
    op,         \* the call in progress
    pc,         \* position inside the call
    seek,       \* read_until: the seek cursor (bytes)
    records,    \* read_until: the HashMap<String, Record>
    reads,      \* read_until: entry indexes handed to read_utmp, in order
    result      \* what the call returned

vars == <<reader, umap, file, lead, llog, ltail, sel, accounts, op, pc, seek, records, reads, result>>

----------------------------------------------------------------------------
(* Bounds of the model *)

MaxEntries == 3

MaxSlots == 3

MaxAccounts == 3

----------------------------------------------------------------------------
(* Constants of the program *)

\* size_of::<RStruct>() of utmp.rs: 4+4+32+4+32+256+4+4+4+4+16+20
UTMP_ST_SIZE == 384

\* size_of::<RStruct>() of lastlog.rs: 4+32+256
LASTLOG_ST_SIZE == 292

\* A u32 is kept as its two 16-bit halves, so that the full 32-bit range is
\* representable: value = hi * 65536 + lo.
Half == 256 * 256

U32(hi, lo) == [hi |-> hi, lo |-> lo]

U32Gt(a, b) == a.hi > b.hi \/ (a.hi = b.hi /\ a.lo > b.lo)

U32Zero == U32(0, 0)

RecordTypeNames ==
    <<"Empty", "RunLvl", "BootTime", "NewTime", "OldTime",
      "InitProc", "LoginProc", "User", "DeadProc", "Accounting">>

\* impl TryFrom<i32> for RecordType
RecordType_try_from(value) ==
    IF value \in 0..9
        THEN [ok |-> TRUE, val |-> RecordTypeNames[value + 1]]
        ELSE [ok |-> FALSE, val |-> "Invalid RecordType"]

Never == [tag |-> "Never", t |-> U32Zero]

Last(t) == [tag |-> "Last", t |-> t]

unix_timestamp_EpochIsLogin(ts) == Last(ts)

\* common.rs unix_timestamp: UNIX_EPOCH + ts seconds, or Never for 0
unix_timestamp(ts) == IF U32Gt(ts, U32Zero) THEN Last(ts) ELSE Never

\* `st.sec as u32`: the i32 reinterpreted as u32 (two's complement)
AsU32(x) == U32((x \div Half) % Half, x % Half)

\* std::str::from_utf8 on the bytes the model uses: bytes below 0x80 are
\* one-byte characters, 0xFF occurs in no UTF-8 text.
IsUtf8(bytes) == \A i \in 1..Len(bytes) : bytes[i] < 128

RECURSIVE TrimStart(_)
TrimStart(s) == IF s # <<>> /\ Head(s) = 0 THEN TrimStart(Tail(s)) ELSE s

RECURSIVE TrimEnd(_)
TrimEnd(s) ==
    IF s # <<>> /\ s[Len(s)] = 0 THEN TrimEnd(SubSeq(s, 1, Len(s) - 1)) ELSE s

\* str::trim_matches('\0')
trim_matches(s) == TrimEnd(TrimStart(s))

\* utmp.rs stringify
stringify(string) ==
    IF IsUtf8(string)
        THEN [ok |-> TRUE, val |-> trim_matches(string)]
        ELSE [ok |-> FALSE, val |-> <<>>]

Ok(v) == [kind |-> "ok", err |-> "", val |-> v]

Err(e) == [kind |-> "err", err |-> e, val |-> {}]

Panic == [kind |-> "panic", err |-> "", val |-> {}]

NoResult == [kind |-> "none", err |-> "", val |-> {}]

\* common.rs new_record
new_record(uid, name) ==
    [rtype |-> "User", uid |-> {uid}, name |-> name, tty |-> <<>>, last_login |-> Never]

\* umap.get(name).map(|uid| *uid): Option<u32> as a set of at most one uid
UmapGet(um, name) == IF name \in DOMAIN um THEN {um[name]} ELSE {}

\* utmp.rs map_record
utmp_map_record(um, st) ==
    LET tty == stringify(st.line)
        name == stringify(st.user)
        rtype == RecordType_try_from(st.rtype)
    IN  IF ~tty.ok THEN Err("InvalidData")
        ELSE IF ~name.ok THEN Err("InvalidData")
        ELSE IF ~rtype.ok THEN Err("InvalidData")
        ELSE Ok([rtype |-> rtype.val,
                 uid |-> UmapGet(um, name.val),
                 name |-> name.val,
                 tty |-> trim_matches(tty.val),
                 last_login |-> unix_timestamp(AsU32(st.sec))])

read_utmp_NoZeroCheck(st) ==
    IF st.rtype < 0 \/ st.rtype > 10 THEN Err("InvalidData") ELSE Ok(st)

\* the check of utmp.rs read_utmp on a decoded struct
read_utmp(st) ==
    IF st.rtype < 0 \/ st.rtype > 10 \/ st.sec = 0 THEN Err("InvalidData") ELSE Ok(st)

\* utmp.rs set_latest on the map name -> Record
MapInsert(all, new) ==
    [n \in DOMAIN all \cup {new.name} |-> IF n = new.name THEN new ELSE all[n]]

set_latest(all, new) ==
    IF /\ new.name \in DOMAIN all
       /\ all[new.name].last_login.tag = "Last"
       /\ new.last_login.tag = "Last"
       /\ U32Gt(all[new.name].last_login.t, new.last_login.t)
        THEN all
        ELSE MapInsert(all, new)

\* the `until` closures of Utmp::read_all, search_uid and search_username
until(o, rec) ==
    CASE o.kind = "search_uid" -> rec.uid = {o.uid}
      [] o.kind = "search_username" -> rec.name = o.name
      [] OTHER -> FALSE

----------------------------------------------------------------------------
(* utmp.rs read_until *)

\* seek(SeekFrom::End(0)): the length of the file in bytes
FileLen(f, ld) == ld + UTMP_ST_SIZE * Len(f)

\* the entry that starts at byte offset sk
EntryIndex(ld, sk) == ((sk - ld) \div UTMP_ST_SIZE) + 1

\* `seek -= ST_SIZE as u64` on a cursor below ST_SIZE
Underflows(sk) == sk < UTMP_ST_SIZE

LoopBody_NoBreak(f, ld, um, o, sk, recs) ==
    LET sk2 == sk - UTMP_ST_SIZE
        idx == EntryIndex(ld, sk2)
        st  == read_utmp(f[idx])
        rec == IF st.kind = "ok" THEN utmp_map_record(um, st.val) ELSE st
    IN  IF rec.kind = "err"
            THEN [status |-> "err", seek |-> sk2, records |-> recs, idx |-> idx]
            ELSE [status |-> "cont", seek |-> sk2,
                  records |-> set_latest(recs, rec.val), idx |-> idx]

\* one iteration of the while loop of read_until (lines 93-105), for a cursor
\* that does not underflow
LoopBody(f, ld, um, o, sk, recs) ==
    LET sk2 == sk - UTMP_ST_SIZE
        idx == EntryIndex(ld, sk2)
        st  == read_utmp(f[idx])
        rec == IF st.kind = "ok" THEN utmp_map_record(um, st.val) ELSE st
    IN  IF rec.kind = "err"
            THEN [status |-> "err", seek |-> sk2, records |-> recs, idx |-> idx]
            ELSE [status |-> IF until(o, rec.val) THEN "break" ELSE "cont",
                  seek |-> sk2,
                  records |-> set_latest(recs, rec.val),
                  idx |-> idx]

\* lines 106-111: empty records for accounts that never logged in
Synthesize(um, recs) ==
    [n \in DOMAIN recs \cup DOMAIN um |->
        IF n \in DOMAIN recs THEN recs[n] ELSE new_record(um[n], n)]

\* records.into_values().collect(): the order of a HashMap is unspecified, so
\* the Vec is kept as the set of its elements
IntoValues(m) == {m[n] : n \in DOMAIN m}

----------------------------------------------------------------------------
(* The inputs *)

A == <<97>>

B == <<98>>

Entry(rtype, user, line, sec) ==
    [rtype |-> rtype, user |-> user, line |-> line, sec |-> sec]

Entries ==
    { Entry(7, <<97, 0>>, <<49, 0>>, 100),
      Entry(7, <<97, 0>>, <<49, 0>>, 200),
      Entry(7, <<97, 0>>, <<50, 0>>, 100),
      Entry(7, <<0, 98>>, <<49, 0>>, 200),
      Entry(8, <<97, 0>>, <<49, 0>>, 200),
      Entry(2, <<0, 0>>,  <<0, 0>>,  100),
      Entry(7, <<97, 0>>, <<49, 0>>, -1),
      Entry(7, <<97, 0>>, <<49, 0>>, 0),
      Entry(10, <<97, 0>>, <<49, 0>>, 100),
      Entry(11, <<97, 0>>, <<49, 0>>, 100),
      Entry(-1, <<97, 0>>, <<49, 0>>, 100),
      Entry(7, <<255, 0>>, <<49, 0>>, 100),
      Entry(7, <<97, 0>>, <<255, 0>>, 100) }

RECURSIVE SeqsUpTo(_, _)
SeqsUpTo(S, n) ==
    IF n = 0 THEN {<<>>}
    ELSE LET shorter == SeqsUpTo(S, n - 1)
         IN  shorter \cup {Append(q, e) : q \in {x \in shorter : Len(x) = n - 1}, e \in S}

Files == SeqsUpTo(Entries, MaxEntries)

\* a file whose length is not a multiple of the entry size starts with
\* this many bytes that belong to no whole entry
Leads == {0, 100}

Directories ==
    { (A :> 1) @@ (B :> 2),
      (A :> 1),
      (A :> 1) @@ (B :> 1) }

Call(kind, name, uid) == [kind |-> kind, name |-> name, uid |-> uid]

NoCall == Call("none", <<>>, 0)

----------------------------------------------------------------------------
(* impl LoginDB for Utmp *)

UtmpIdle == reader = "utmp" /\ pc = "idle"

Env == <<reader, umap, file, lead, llog, ltail, sel, accounts>>

\* File::open, seek(SeekFrom::End(0)), the empty map (lines 89-92)
read_until_enter(o) ==
    /\ op' = o
    /\ seek' = FileLen(file, lead)
    /\ records' = <<>>
    /\ reads' = <<>>
    /\ pc' = IF FileLen(file, lead) > 0 THEN "loop" ELSE "after"
    /\ UNCHANGED <<Env, result>>

Utmp_search_uid(uid) ==
    /\ UtmpIdle
    /\ read_until_enter(Call("search_uid", <<>>, uid))

Utmp_search_username(username) ==
    /\ UtmpIdle
    /\ read_until_enter(Call("search_username", username, 0))

Utmp_iter_accounts ==
    /\ UtmpIdle
    /\ read_until_enter(Call("iter_accounts", <<>>, 0))

\* one pass through the body of `while seek > 0`
read_until_loop ==
    /\ reader = "utmp" /\ pc = "loop"
    /\ ~Underflows(seek)
    /\ LET b == LoopBody(file, lead, umap, op, seek, records)
       IN  /\ seek' = b.seek
           /\ records' = b.records
           /\ reads' = Append(reads, b.idx)
           /\ IF b.status = "err"
                THEN pc' = "done" /\ result' = Err("InvalidData")
                ELSE /\ pc' = IF b.status = "break" \/ b.seek = 0 THEN "after" ELSE "loop"
                     /\ result' = result
    /\ UNCHANGED <<Env, op>>

\* `seek -= ST_SIZE` with 0 < seek < ST_SIZE: a build with overflow checks
\* panics; without them the cursor wraps to 2^64 - (ST_SIZE - seek), which
\* lseek rejects (EINVAL, ErrorKind::InvalidInput)
read_until_underflow ==
    /\ reader = "utmp" /\ pc = "loop"
    /\ Underflows(seek)
    /\ \E r \in {Panic, Err("InvalidInput")} : result' = r
    /\ pc' = "done"
    /\ UNCHANGED <<Env, op, seek, records, reads>>

\* read_until lines 106-112, the Vec it returns
ReadUntilVec(um, recs) == IntoValues(Synthesize(um, recs))

\* `for record in records { if <found> { return Ok(record) } }`, else the
\* "no such user" error: the first hit in the unspecified order of the Vec
FirstFound(found) ==
    IF found = {} THEN {Err("InvalidInput")} ELSE {Ok({r}) : r \in found}

search_uid_found_OrUnknown(vec, uid) == {r \in vec : r.uid = {uid} \/ r.uid = {}}

\* Utmp::search_uid lines 192-196
search_uid_found(vec, uid) == {r \in vec : r.uid = {uid}}

search_username_found_KnownOnly(vec, username) ==
    {r \in vec : r.name = username /\ r.uid # {}}

\* Utmp::search_username lines 204-208
search_username_found(vec, username) == {r \in vec : r.name = username}

\* Utmp::iter_accounts lines 176-185: the results map is keyed by uid, a
\* later insert of the same uid replaces the earlier one, in the unspecified
\* order of the Vec
iter_accounts_results(vec) ==
    LET kept == {r \in vec : r.rtype = "User" /\ r.uid # {}}
        uids == UNION {r.uid : r \in kept}
        picks == {p \in [uids -> kept] : \A u \in uids : p[u].uid = {u}}
    IN  {Ok({p[u] : u \in uids}) : p \in picks}

\* what each call makes of the map read_until built
ReturnOutcomes(o, um, recs) ==
    LET vec == ReadUntilVec(um, recs)
    IN  CASE o.kind = "search_uid" -> FirstFound(search_uid_found(vec, o.uid))
          [] o.kind = "search_username" -> FirstFound(search_username_found(vec, o.name))
          [] OTHER -> iter_accounts_results(vec)

Return(kind) ==
    /\ reader = "utmp" /\ pc = "after" /\ op.kind = kind
    /\ \E r \in ReturnOutcomes(op, umap, records) : result' = r
    /\ pc' = "done"
    /\ UNCHANGED <<Env, op, seek, records, reads>>

Utmp_search_uid_return == Return("search_uid")

Utmp_search_username_return == Return("search_username")

Utmp_iter_accounts_return == Return("iter_accounts")

IsValidOutcomes_AtEnd(f, ld) ==
    IF f = <<>> THEN {FALSE} ELSE {read_utmp(f[Len(f)]).kind = "ok"}

\* Utmp::is_valid: one read_utmp at the position of the freshly opened file,
\* offset 0.  A short read leaves the rest of the zeroed buffer in place.  With
\* leading bytes in front of the first whole entry, the 384 bytes at offset 0
\* put `sec` (offset 340) inside bytes the model does not carry (the host
\* field of the first entry) when there is an entry, and inside the zeroed
\* rest of the buffer when there is none.
IsValidOutcomes(f, ld) ==
    IF ld = 0
        THEN IF f = <<>> THEN {FALSE} ELSE {read_utmp(f[1]).kind = "ok"}
        ELSE IF f = <<>> THEN {FALSE} ELSE BOOLEAN

Utmp_is_valid ==
    /\ UtmpIdle
    /\ op' = Call("is_valid", <<>>, 0)
    /\ \E v \in IsValidOutcomes(file, lead) : result' = Ok(v)
    /\ pc' = "done"
    /\ UNCHANGED <<Env, seek, records, reads>>

----------------------------------------------------------------------------
(* lastlog.rs *)

\* read_struct on the first four bytes of a slot: RStruct.0 is a u32 in the
\* byte order of the host, little-endian on the targets the crate builds for
U32FromBytes_BigEndian(b) == U32(b[1] * 256 + b[2], b[3] * 256 + b[4])

U32FromBytes(b) == U32(b[4] * 256 + b[3], b[2] * 256 + b[1])

\* lastlog.rs map_record
lastlog_map_record(name, uid, st) ==
    IF ~IsUtf8(st.line)
        THEN Err("InvalidData")
        ELSE Ok({[uid |-> uid,
                  name |-> name,
                  tty |-> trim_matches(st.line),
                  last_login |-> unix_timestamp(U32FromBytes(st.ts))]})

\* lastlog.rs read_lastlog: seek to uid * ST_SIZE, read_exact ST_SIZE bytes
read_lastlog(f, tail, name, uid) ==
    IF (uid + 1) * LASTLOG_ST_SIZE > LASTLOG_ST_SIZE * Len(f) + tail
        THEN Err("UnexpectedEof")
        ELSE lastlog_map_record(name, uid, f[uid + 1])

\* read_passwd_idmap(): uid -> name.  Where two names share a uid the line
\* of /etc/passwd read last wins; the model keeps no line order, so every
\* choice is possible.
IdMaps(um) ==
    LET uids == {um[n] : n \in DOMAIN um}
    IN  {m \in [uids -> DOMAIN um] : \A u \in uids : um[m[u]] = u}

LastLogIdle == reader = "lastlog" /\ pc = "idle"

Returned(o, r) ==
    /\ op' = o
    /\ result' = r
    /\ pc' = "done"
    /\ UNCHANGED <<Env, seek, records, reads>>

LastLog_search_uid(uid) ==
    /\ LastLogIdle
    /\ \E users \in IdMaps(umap) :
         Returned(Call("search_uid", <<>>, uid),
                  IF uid \notin DOMAIN users
                      THEN Err("InvalidInput")
                      ELSE read_lastlog(llog, ltail, users[uid], uid))

LastLog_search_username(username) ==
    /\ LastLogIdle
    /\ Returned(Call("search_username", username, 0),
                IF username \notin DOMAIN umap
                    THEN Err("InvalidInput")
                    ELSE read_lastlog(llog, ltail, username, umap[username]))

\* LastLog::iter_accounts: every account in uid order, the first failing read
\* fails the call
LastLog_iter_accounts ==
    /\ LastLogIdle
    /\ \E users \in IdMaps(umap) :
         LET each == [u \in DOMAIN users |-> read_lastlog(llog, ltail, users[u], u)]
             bad  == {u \in DOMAIN users : each[u].kind = "err"}
             first == CHOOSE u \in bad : \A v \in bad : u <= v
         IN  Returned(Call("iter_accounts", <<>>, 0),
                      IF bad # {}
                          THEN each[first]
                          ELSE Ok(UNION {each[u].val : u \in DOMAIN users}))

\* what a writer of the lastlog file stores for a timestamp: four bytes,
\* least significant first
LE32(t) == <<t.lo % 256, t.lo \div 256, t.hi % 256, t.hi \div 256>>

Timestamps == {U32(0, 0), U32(0, 1), U32(0, 600), U32(32768, 0), U32(65535, 65535)}

Slot(t, line) == [ts |-> LE32(t), line |-> line]

Slots == {Slot(t, line) : t \in Timestamps, line \in {<<49, 0>>, <<255, 0>>}}

LFiles == SeqsUpTo(Slots, MaxSlots)

Tails == {0, 100}

----------------------------------------------------------------------------
(* impl LoginDB for Windows *)

\* "defaultuser"
DefaultUser == <<100, 101, 102, 97, 117, 108, 116, 117, 115, 101, 114>>

\* "N/A"
NotApplicable == <<78, 47, 65>>

\* str::starts_with
starts_with(s, p) == Len(s) >= Len(p) /\ SubSeq(s, 1, Len(p)) = p

\* a USER_INFO_3 of the buffer: usri3_name, usri3_user_id, usri3_last_logon
Account(name, uid, last_logon) ==
    [name |-> name, uid |-> uid, last_logon |-> last_logon]

\* Windows::iter_accounts lines 146-160: the Record of one account
win_record(account) ==
    [rtype |-> "User",
     uid |-> {account.uid},
     name |-> account.name,
     tty |-> NotApplicable,
     last_login |-> IF account.last_logon = U32Zero
                        THEN Never
                        ELSE Last(account.last_logon)]

\* Windows::iter_accounts: the records in the order of the buffer
win_iter_accounts(enum) ==
    IF enum.rc # "NERR_Success"
        THEN Err("Other")
        ELSE Ok([i \in 1..Len(enum.buf) |-> win_record(enum.buf[i])])

\* the records get_latest_default takes the maximum over (lines 44-45)
DefaultLogins(recs) ==
    {i \in 1..Len(recs) :
        starts_with(recs[i].name, DefaultUser) /\ recs[i].last_login # Never}

\* Iterator::max_by: of several maximal elements the last one
MaxBy(recs, among) ==
    CHOOSE i \in among :
        \A j \in among :
            /\ ~U32Gt(recs[j].last_login.t, recs[i].last_login.t)
            /\ recs[j].last_login.t = recs[i].last_login.t => j <= i

get_latest_default_AnyDefault(recs) ==
    IF DefaultLogins(recs) = {}
        THEN Ok({})
        ELSE Ok({recs[MaxBy(recs, DefaultLogins(recs))].last_login})

\* winapi.rs get_latest_default: None, Some(login), or the failed `expect`
get_latest_default(recs) ==
    LET only_defaults ==
            \A i \in 1..Len(recs) :
                \/ recs[i].last_login = Never
                \/ starts_with(recs[i].name, DefaultUser)
    IN  IF ~only_defaults
            THEN Ok({})
        ELSE IF DefaultLogins(recs) = {}
            THEN Panic
        ELSE Ok({recs[MaxBy(recs, DefaultLogins(recs))].last_login})

\* `for mut record in records { if <match> { ...; return Ok(record) } }`,
\* else "no such user"
win_first_match(recs, latest, hits) ==
    IF hits = {}
        THEN Err("InvalidInput")
        ELSE LET first == CHOOSE i \in hits : \A j \in hits : i <= j
             IN  Ok({IF latest = {}
                         THEN recs[first]
                         ELSE [recs[first] EXCEPT
                                  !.last_login = CHOOSE l \in latest : TRUE]})

\* Windows::search_username
win_search_username(enum, username) ==
    LET listed == win_iter_accounts(enum)
    IN  IF listed.kind = "err" THEN listed
        ELSE LET latest == get_latest_default(listed.val)
             IN  IF latest.kind = "panic" THEN Panic
                 ELSE win_first_match(listed.val, latest.val,
                        {i \in 1..Len(listed.val) : username = listed.val[i].name})

\* Windows::search_uid
win_search_uid(enum, uid) ==
    LET listed == win_iter_accounts(enum)
    IN  IF listed.kind = "err" THEN listed
        ELSE LET latest == get_latest_default(listed.val)
             IN  IF latest.kind = "panic" THEN Panic
                 ELSE win_first_match(listed.val, latest.val,
                        {i \in 1..Len(listed.val) : listed.val[i].uid = {uid}})

WindowsIdle == reader = "windows" /\ pc = "idle"

Windows_search_username(username) ==
    /\ WindowsIdle
    /\ Returned(Call("search_username", username, 0),
                win_search_username(accounts, username))

Windows_search_uid(uid) ==
    /\ WindowsIdle
    /\ Returned(Call("search_uid", <<>>, uid), win_search_uid(accounts, uid))

Windows_iter_accounts ==
    /\ WindowsIdle
    /\ Returned(Call("iter_accounts", <<>>, 0), win_iter_accounts(accounts))

\* the account names of the model: two users, two placeholder accounts and
\* "default", a name that is only a prefix of the placeholder pattern
WinNames ==
    <<A, B, DefaultUser \o <<48>>, DefaultUser \o <<49>>, SubSeq(DefaultUser, 1, 7)>>

\* usri3_user_id of the account named WinNames[i]
WinUid(i) == 1000 + i

\* usri3_last_logon: never, and three times, one of them above 2^16
LastLogons == {U32Zero, U32(0, 200), U32(1, 0)}

WinAccounts ==
    {Account(WinNames[i], WinUid(i), t) : i \in DOMAIN WinNames, t \in LastLogons}

\* NetUserEnum lists an account once
Enumerations ==
    {buf \in SeqsUpTo(WinAccounts, MaxAccounts) :
        \A i, j \in 1..Len(buf) : buf[i].name = buf[j].name => i = j}

NetUserEnum ==
    {[rc |-> "NERR_Success", buf |-> buf] : buf \in Enumerations}
        \cup {[rc |-> "ERROR_ACCESS_DENIED", buf |-> <<>>]}

NoEnum == [rc |-> "NERR_Success", buf |-> <<>>]

WinSearchNames == {WinNames[i] : i \in DOMAIN WinNames}

WinSearchUids == {WinUid(i) : i \in DOMAIN WinNames}

----------------------------------------------------------------------------
(* The module selection over os::modules *)

\* compat.rs os::modules (unix): the readers in priority order
modules == <<"utmp", "lastlog">>

Overrides == {"unset", "unopenable", "openable"}

\* the environment of a selection: the override path, the readers whose
\* is_valid accepts the opened override file, the readers one of whose
\* default locations is a regular file
SelEnvs ==
    [override : Overrides,
     valid : SUBSET {"utmp", "lastlog"},
     present : SUBSET {"utmp", "lastlog"}]

SelState(env, stage, next, probed, chosen, outcome) ==
    [env |-> env, stage |-> stage, next |-> next, probed |-> probed,
     chosen |-> chosen, outcome |-> outcome]

SelIdle == reader = "selector" /\ pc = "idle"

SelFrame ==
    UNCHANGED <<reader, umap, file, lead, llog, ltail, accounts, op, seek, records, reads, result>>

\* stage 1 with an override that cannot be opened: fail at once
OverrideOpenFails_FallsThrough ==
    /\ reader = "selector" /\ pc = "idle" /\ sel.stage = "start"
    /\ sel.env.override = "unopenable"
    /\ sel' = [sel EXCEPT !.stage = "defaults", !.next = 1]
    /\ pc' = "idle"
    /\ SelFrame

OverrideOpenFails ==
    /\ SelIdle /\ sel.stage = "start"
    /\ sel.env.override = "unopenable"
    /\ sel' = [sel EXCEPT !.stage = "failed", !.outcome = "InvalidInput"]
    /\ pc' = "done"
    /\ SelFrame

\* stage 1 with an override that opens: probe the readers in order
OverrideOpens ==
    /\ SelIdle /\ sel.stage = "start"
    /\ sel.env.override = "openable"
    /\ sel' = [sel EXCEPT !.stage = "override", !.next = 1]
    /\ pc' = "idle"
    /\ SelFrame

OverrideProbe ==
    /\ SelIdle /\ sel.stage = "override"
    /\ sel.next <= Len(modules)
    /\ IF modules[sel.next] \in sel.env.valid
         THEN /\ sel' = [sel EXCEPT !.stage = "selected", !.chosen = modules[sel.next]]
              /\ pc' = "done"
         ELSE /\ sel' = [sel EXCEPT !.next = @ + 1]
              /\ pc' = "idle"
    /\ SelFrame

\* stage 2 is entered when no override is set
NoOverride ==
    /\ SelIdle /\ sel.stage = "start"
    /\ sel.env.override = "unset"
    /\ sel' = [sel EXCEPT !.stage = "defaults", !.next = 1]
    /\ pc' = "idle"
    /\ SelFrame

DefaultProbe ==
    /\ SelIdle /\ sel.stage = "defaults"
    /\ sel.next <= Len(modules)
    /\ IF modules[sel.next] \in sel.env.present
         THEN /\ sel' = [sel EXCEPT !.stage = "selected",
                                    !.chosen = modules[sel.next],
                                    !.probed = Append(@, modules[sel.next])]
              /\ pc' = "done"
         ELSE /\ sel' = [sel EXCEPT !.next = @ + 1,
                                    !.probed = Append(@, modules[sel.next])]
              /\ pc' = "idle"
    /\ SelFrame

\* stage 3: no reader validated
Exhaustion ==
    /\ SelIdle /\ sel.stage \in {"override", "defaults"}
    /\ sel.next > Len(modules)
    /\ sel' = [sel EXCEPT !.stage = "failed", !.outcome = "NotFound"]
    /\ pc' = "done"
    /\ SelFrame

NoSel == SelState([override |-> "unset", valid |-> {}, present |-> {}],
                  "none", 0, <<>>, "", "")

----------------------------------------------------------------------------

InitCall ==
    /\ op = NoCall
    /\ pc = "idle"
    /\ seek = 0
    /\ records = <<>>
    /\ reads = <<>>
    /\ result = NoResult

InitUtmp ==
    /\ reader = "utmp"
    /\ umap \in Directories
    /\ file \in Files
    /\ lead \in Leads
    /\ llog = <<>>
    /\ ltail = 0
    /\ sel = NoSel
    /\ accounts = NoEnum
    /\ InitCall

InitLastLog ==
    /\ reader = "lastlog"
    /\ umap \in Directories
    /\ file = <<>>
    /\ lead = 0
    /\ llog \in LFiles
    /\ ltail \in Tails
    /\ sel = NoSel
    /\ accounts = NoEnum
    /\ InitCall

InitSelector ==
    /\ reader = "selector"
    /\ umap = (A :> 1)
    /\ file = <<>>
    /\ lead = 0
    /\ llog = <<>>
    /\ ltail = 0
    /\ sel \in {SelState(e, "start", 0, <<>>, "", "") : e \in SelEnvs}
    /\ accounts = NoEnum
    /\ InitCall

InitWindows ==
    /\ reader = "windows"
    /\ umap = <<>>
    /\ file = <<>>
    /\ lead = 0
    /\ llog = <<>>
    /\ ltail = 0
    /\ sel = NoSel
    /\ accounts \in NetUserEnum
    /\ InitCall

Init == InitUtmp \/ InitLastLog \/ InitSelector \/ InitWindows

Uids == {1, 2}

Usernames == {A, B}

Next ==
    \/ \E uid \in Uids : Utmp_search_uid(uid)
    \/ \E username \in Usernames : Utmp_search_username(username)
    \/ Utmp_iter_accounts
    \/ Utmp_is_valid
    \/ read_until_loop
    \/ read_until_underflow
    \/ Utmp_search_uid_return
    \/ Utmp_search_username_return
    \/ Utmp_iter_accounts_return
    \/ \E uid \in Uids : LastLog_search_uid(uid)
    \/ \E username \in Usernames : LastLog_search_username(username)
    \/ LastLog_iter_accounts
    \/ OverrideOpenFails
    \/ OverrideOpens
    \/ OverrideProbe
    \/ NoOverride
    \/ DefaultProbe
    \/ Exhaustion
    \/ \E username \in WinSearchNames : Windows_search_username(username)
    \/ \E uid \in WinSearchUids : Windows_search_uid(uid)
    \/ Windows_iter_accounts

Spec == Init /\ [][Next]_vars

----------------------------------------------------------------------------
(* Vocabulary of the properties *)

UtmpDone(kind) == reader = "utmp" /\ pc = "done" /\ op.kind = kind

\* an entry the scan decodes: read_utmp and map_record both accept it
Decodable(um, e) ==
    /\ read_utmp(e).kind = "ok"
    /\ utmp_map_record(um, e).kind = "ok"

\* a log every entry of which decodes, in a file of whole entries
FullyDecodable == lead = 0 /\ \A i \in 1..Len(file) : Decodable(umap, file[i])

RecordOf(um, e) == utmp_map_record(um, e).val

\* the indexes of the decodable entries that carry `name`
EntriesOf(name) ==
    {i \in 1..Len(file) : Decodable(umap, file[i]) /\ RecordOf(umap, file[i]).name = name}

UserEntriesOf(name) ==
    {i \in EntriesOf(name) : RecordOf(umap, file[i]).rtype = "User"}

TimeOf(i) == RecordOf(umap, file[i]).last_login.t

\* the greatest timestamp among the entries I (a non-empty set of indexes)
MaxTime(I) == TimeOf(CHOOSE i \in I : \A j \in I : ~U32Gt(TimeOf(j), TimeOf(i)))

KnownUids == {umap[n] : n \in DOMAIN umap}

DistinctIds == \A m, n \in DOMAIN umap : umap[m] = umap[n] => m = n

----------------------------------------------------------------------------
(* C1 as stated: Utmp::search_username on a fully decodable log, for a     *)
(* name with at least one entry, returns a record whose last_login is the  *)
(* greatest timestamp among all entries of that name, whatever their file  *)
(* order.                                                                  *)
C1_LatestOfName ==
    (UtmpDone("search_username") /\ FullyDecodable /\ EntriesOf(op.name) # {})
        => /\ result.kind = "ok"
           /\ \A r \in result.val : r.last_login = Last(MaxTime(EntriesOf(op.name)))

\* the entry of `name` closest to end-of-file
LastEntryOf(name) == CHOOSE i \in EntriesOf(name) : \A j \in EntriesOf(name) : j <= i

\* the entries of `name` were appended in non-decreasing order of timestamp
AppendedInOrder(name) ==
    \A i, j \in EntriesOf(name) : i < j => ~U32Gt(TimeOf(i), TimeOf(j))

(* C1 as amended: Utmp::search_username on a fully decodable log, for a    *)
(* name with at least one entry, returns the record of the entry of that   *)
(* name closest to end-of-file; its last_login is the greatest timestamp   *)
(* among the entries of the name when they were appended in non-decreasing *)
(* order of timestamp.                                                     *)
C1_LastAppendedOfName ==
    (UtmpDone("search_username") /\ FullyDecodable /\ EntriesOf(op.name) # {})
        => /\ result = Ok({RecordOf(umap, file[LastEntryOf(op.name)])})
           /\ AppendedInOrder(op.name)
                => \A r \in result.val :
                     r.last_login = Last(MaxTime(EntriesOf(op.name)))

\* a lookup of a name whose entries were appended out of order: the record
\* returned is the last appended one, not the one with the greatest time
C1_Witness ==
    /\ UtmpDone("search_username") /\ FullyDecodable
    /\ Len(file) = 3
    /\ EntriesOf(op.name) = {1, 2, 3}
    /\ U32Gt(TimeOf(2), TimeOf(3))
    /\ result = Ok({RecordOf(umap, file[3])})

(* C2: Utmp::iter_accounts on a fully decodable log with a directory of    *)
(* distinct ids returns exactly one record per account of the directory,   *)
(* and an account without a user-session entry gets last_login = Never and *)
(* kind = user session.                                                    *)
C2_OneRecordPerAccount ==
    (UtmpDone("iter_accounts") /\ FullyDecodable /\ DistinctIds)
        => /\ result.kind = "ok"
           /\ Cardinality(result.val) = Cardinality(DOMAIN umap)
           /\ \A n \in DOMAIN umap :
                /\ \E r \in result.val : r.name = n /\ r.uid = {umap[n]}
                /\ UserEntriesOf(n) = {}
                     => \E r \in result.val :
                          /\ r.name = n
                          /\ r.last_login = Never
                          /\ r.rtype = "User"

(* C3 as stated: search_uid for an id absent from the directory fails with *)
(* InvalidInput or NotFound, for the utmp reader and the lastlog reader,   *)
(* whatever the file contains.                                             *)
C3_UnknownIdFailsInvalidInput ==
    (/\ reader \in {"utmp", "lastlog"}
     /\ pc = "done"
     /\ op.kind = "search_uid"
     /\ op.uid \notin KnownUids)
        => /\ result.kind # "ok"
           /\ result.kind = "err" => result.err \in {"InvalidInput", "NotFound"}

(* C3 as amended: search_uid for an id absent from the directory never     *)
(* returns a record.  LastLog::search_uid fails with InvalidInput.          *)
(* Utmp::search_uid scans the file first: it fails with InvalidInput when  *)
(* the scan completes, with InvalidData when the scan meets an entry it    *)
(* cannot decode, and on a file whose length is no multiple of the entry   *)
(* size the cursor underflow ends the call (a failed seek, InvalidInput,   *)
(* or a panic in a build with overflow checks).                            *)
C3_UnknownIdNeverReturnsRecord ==
    (/\ reader \in {"utmp", "lastlog"}
     /\ pc = "done"
     /\ op.kind = "search_uid"
     /\ op.uid \notin KnownUids)
        => /\ result.kind # "ok"
           /\ reader = "lastlog" => result = Err("InvalidInput")
           /\ (reader = "utmp" /\ FullyDecodable) => result = Err("InvalidInput")
           /\ (reader = "utmp" /\ lead = 0 /\ ~FullyDecodable) => result = Err("InvalidData")
           /\ (reader = "utmp" /\ lead # 0)
                => result \in {Err("InvalidInput"), Err("InvalidData"), Panic}

\* an absent id looked up in a log that holds entries of a name the
\* directory does not know, the scan completed
C3_Witness ==
    /\ UtmpDone("search_uid")
    /\ op.uid \notin KnownUids
    /\ FullyDecodable
    /\ \E i \in 1..Len(file) : RecordOf(umap, file[i]).uid = {}
    /\ result = Err("InvalidInput")

(* C4 as stated: Utmp::search_username for a name absent from the          *)
(* directory fails and returns no record, even when the log holds entries  *)
(* of that name.                                                           *)
C4_UnknownNameFails ==
    (UtmpDone("search_username") /\ op.name \notin DOMAIN umap)
        => result.kind # "ok"

(* C4 as amended: Utmp::search_username for a name absent from the         *)
(* directory never returns a synthesized record.  It fails when the log    *)
(* holds no decodable entry of that name (InvalidInput when the whole log  *)
(* decodes); a record it returns is the decoded record of an entry of that *)
(* name, without uid, and on a fully decodable log that holds such entries *)
(* it returns the one closest to end-of-file.                              *)
C4_UnknownNameOnlyFromLog ==
    (UtmpDone("search_username") /\ op.name \notin DOMAIN umap)
        => /\ EntriesOf(op.name) = {} => result.kind # "ok"
           /\ (EntriesOf(op.name) = {} /\ FullyDecodable) => result = Err("InvalidInput")
           /\ result.kind = "ok"
                => \A r \in result.val :
                     /\ r.uid = {}
                     /\ \E i \in EntriesOf(op.name) : r = RecordOf(umap, file[i])
           /\ (EntriesOf(op.name) # {} /\ FullyDecodable)
                => result = Ok({RecordOf(umap, file[LastEntryOf(op.name)])})

\* both cases are reached: here the record of a name the directory does not
\* know, decoded from the log
C4_Witness ==
    /\ UtmpDone("search_username") /\ op.name \notin DOMAIN umap
    /\ FullyDecodable
    /\ EntriesOf(op.name) # {}
    /\ result.kind = "ok"
    /\ \A r \in result.val : r.uid = {} /\ r.name = op.name

----------------------------------------------------------------------------
(* C5: LastLog::search_uid round trip.  For an id of the directory whose   *)
(* slot holds the timestamp t (as its writer stores it) and a terminal     *)
(* field that is valid text, the record's last_login is t seconds after    *)
(* the epoch when t # 0 and Never when t = 0 (and only then).              *)
C5_SlotRoundTrip ==
    (/\ reader = "lastlog" /\ pc = "done" /\ op.kind = "search_uid"
     /\ op.uid \in KnownUids
     /\ op.uid + 1 <= Len(llog)
     /\ IsUtf8(llog[op.uid + 1].line))
        => \A t \in Timestamps :
             llog[op.uid + 1].ts = LE32(t)
                => /\ result.kind = "ok"
                   /\ Cardinality(result.val) = 1
                   /\ \A r \in result.val :
                        /\ r.uid = op.uid
                        /\ t # U32Zero => r.last_login = Last(t)
                        /\ r.last_login = Never <=> t = U32Zero

\* the slot of uid 2 written with 2^32 - 1 and read back as that time
C5_Witness ==
    /\ reader = "lastlog" /\ pc = "done" /\ op.kind = "search_uid"
    /\ op.uid \in KnownUids
    /\ op.uid = 2
    /\ Len(llog) >= 3
    /\ llog[3].ts = LE32(U32(65535, 65535))
    /\ result.kind = "ok"
    /\ \E r \in result.val : r.last_login = Last(U32(65535, 65535))

----------------------------------------------------------------------------
(* The scan as a function of the file, for statements that compare calls *)

RECURSIVE ScanFrom(_, _, _, _, _, _)
ScanFrom(f, ld, um, o, sk, recs) ==
    IF sk = 0 THEN [status |-> "after", records |-> recs]
    ELSE IF Underflows(sk) THEN [status |-> "underflow", records |-> recs]
    ELSE LET b == LoopBody(f, ld, um, o, sk, recs)
         IN  CASE b.status = "err" -> [status |-> "err", records |-> recs]
               [] b.status = "break" -> [status |-> "after", records |-> b.records]
               [] OTHER -> ScanFrom(f, ld, um, o, b.seek, b.records)

\* every result the call o can return on the file f
CallOutcomes(f, ld, um, o) ==
    LET s == ScanFrom(f, ld, um, o, FileLen(f, ld), <<>>)
    IN  CASE s.status = "err" -> {Err("InvalidData")}
          [] s.status = "underflow" -> {Panic, Err("InvalidInput")}
          [] OTHER -> ReturnOutcomes(o, um, s.records)

PointLookup == reader = "utmp" /\ op.kind \in {"search_uid", "search_username"}

\* entry i satisfies the predicate of the lookup in progress
Satisfies(i) == Decodable(umap, file[i]) /\ until(op, RecordOf(umap, file[i]))

(* C6: in a point lookup the entries are read strictly from the last one   *)
(* toward the first, and no entry in front of the last entry that          *)
(* satisfies the predicate is read.  When the trailing entry satisfies it, *)
(* exactly one entry is read and the result is the one the call gives on   *)
(* the file made of that entry alone.                                      *)
C6_EarlyStop ==
    PointLookup =>
        /\ \A k \in 1..Len(reads) : reads[k] = Len(file) - k + 1
        /\ \A i \in 1..Len(file) :
             Satisfies(i) => \A k \in 1..Len(reads) : reads[k] >= i
        /\ (pc = "done" /\ file # <<>> /\ Satisfies(Len(file)))
             => /\ reads = <<Len(file)>>
                /\ result \in CallOutcomes(<<file[Len(file)]>>, 0, umap, op)

\* a lookup that stopped at a matching trailing entry, in front of which
\* lies an entry the scan could not have decoded
C6_Witness ==
    /\ PointLookup /\ pc = "done"
    /\ Len(file) >= 2
    /\ Satisfies(Len(file))
    /\ ~Decodable(umap, file[Len(file) - 1])
    /\ reads = <<Len(file)>>
    /\ result.kind = "ok"

----------------------------------------------------------------------------
(* C7: an entry whose kind tag is outside 0..9 is never accepted: is_valid *)
(* on a file whose decoded entry has such a tag returns false, and a scan  *)
(* that decodes such an entry fails with InvalidData.                      *)
C7_OutOfRangeTagRejected ==
    /\ (UtmpDone("is_valid") /\ lead = 0 /\ file # <<>> /\ file[1].rtype \notin 0..9)
          => result.val = FALSE
    /\ (/\ reader = "utmp" /\ op.kind # "is_valid"
        /\ reads # <<>>
        /\ file[reads[Len(reads)]].rtype \notin 0..9)
          => pc = "done" /\ result = Err("InvalidData")

----------------------------------------------------------------------------
(* C8: when the override path is set and cannot be opened, the selection   *)
(* fails at once with an error and no reader's default locations are       *)
(* probed; the default-location stage is entered only without an override. *)
C8_OverrideFailureIsFinal ==
    reader = "selector" =>
        /\ sel.env.override = "unopenable"
             => /\ sel.stage \in {"start", "failed"}
                /\ sel.probed = <<>>
                /\ pc = "done" => sel.outcome = "InvalidInput" /\ sel.chosen = ""
        /\ (sel.stage = "defaults" \/ sel.probed # <<>>) => sel.env.override = "unset"

\* the failed selection of an unopenable override, with a reader whose
\* default location exists and would have been found
C8_Witness ==
    /\ reader = "selector" /\ pc = "done"
    /\ sel.env.override = "unopenable"
    /\ sel.env.present # {}
    /\ sel.stage = "failed"

----------------------------------------------------------------------------
(* C9: set_latest replaces the stored entry of a name only if there is     *)
(* none or the new timestamp is strictly greater; on equal timestamps the  *)
(* stored entry, the one the scan saw first, is kept.  So the map holds,   *)
(* for each name, the first-read entry among those with the greatest       *)
(* timestamp read so far.                                                  *)
C9_TieKeepsStored ==
    (reader = "utmp" /\ op.kind # "is_valid" /\ ~(pc = "done" /\ result.kind = "err")) =>
        \A n \in DOMAIN records :
            LET seen == {i \in EntriesOf(n) : \E k \in 1..Len(reads) : reads[k] = i}
                top  == {i \in seen : TimeOf(i) = MaxTime(seen)}
                first == CHOOSE i \in top : \A j \in top : j <= i
            IN  records[n] = RecordOf(umap, file[first])

----------------------------------------------------------------------------
(* C10: Utmp::iter_accounts ignores entries that are not user sessions: on *)
(* a fully decodable log its result is the one it gives on the log with    *)
(* every such entry removed.                                               *)
IsUserSession(e) == e.rtype = 7

C10_NonUserEntriesIgnored ==
    (UtmpDone("iter_accounts") /\ FullyDecodable)
        => result \in CallOutcomes(SelectSeq(file, IsUserSession), 0, umap, op)

----------------------------------------------------------------------------
UtmpScan ==
    reader = "utmp" /\ op.kind \in {"search_uid", "search_username", "iter_accounts"}

(* C11: a scan that decodes an entry whose seconds timestamp is 0 fails    *)
(* with InvalidData and returns no record: the entry read is the last one  *)
(* read, and a call ends in InvalidData whenever such an entry lies        *)
(* between end-of-file and the first entry that satisfies the predicate    *)
(* (anywhere in the file for read_all); the entry is neither skipped nor   *)
(* turned into a Never record.                                             *)
C11_ZeroTimestampRejected ==
    UtmpScan =>
        /\ \A k \in 1..Len(reads) :
             file[reads[k]].sec = 0
                => /\ k = Len(reads)
                   /\ pc = "done"
                   /\ result = Err("InvalidData")
        /\ pc = "done"
             => \A i \in 1..Len(file) :
                  (file[i].sec = 0 /\ \A j \in (i + 1)..Len(file) : ~Satisfies(j))
                     => result = Err("InvalidData")
        /\ \A n \in DOMAIN records : records[n].last_login # Never

\* a scan that read a decodable entry and then one with timestamp 0,
\* otherwise well-formed, in front of it
C11_Witness ==
    /\ UtmpScan /\ pc = "done"
    /\ Len(reads) = 2
    /\ Decodable(umap, file[reads[1]])
    /\ file[reads[2]].sec = 0
    /\ file[reads[2]].rtype = 7
    /\ IsUtf8(file[reads[2]].user) /\ IsUtf8(file[reads[2]].line)
    /\ result = Err("InvalidData")

----------------------------------------------------------------------------
\* what C12 calls a valid entry: kind tag in range and timestamp nonzero
ValidEntry(e) == e.rtype \in 0..9 /\ e.sec # 0

(* C12 as stated: Utmp::is_valid decodes the one entry at end-of-file and  *)
(* returns true iff that last entry has a kind tag in range and a nonzero  *)
(* timestamp, whatever the first entry of the file holds.  (Stated for     *)
(* files without an entry of kind tag 10, the tag C7 is about.)            *)
C12_IsValidReadsLastEntry ==
    (/\ UtmpDone("is_valid") /\ lead = 0 /\ file # <<>>
     /\ \A i \in 1..Len(file) : file[i].rtype # 10)
        => result.val = ValidEntry(file[Len(file)])

(* C12 as amended: Utmp::is_valid decodes exactly one entry, the one at    *)
(* the position of the file handle it is given: offset 0 of a freshly      *)
(* opened file, the first entry.  Its verdict depends on that entry alone: *)
(* true iff the file is not empty and its first entry has a kind tag in    *)
(* 0..10 (what read_utmp accepts) and a nonzero timestamp, whatever the    *)
(* last entry holds.                                                       *)
C12_IsValidReadsFirstEntry ==
    UtmpDone("is_valid") =>
        /\ reads = <<>>
        /\ file = <<>> => result.val = FALSE
        /\ (lead = 0 /\ file # <<>>)
             => result.val = (file[1].rtype \in 0..10 /\ file[1].sec # 0)

\* a file accepted on its first entry although its last entry is one no
\* scan would decode
C12_Witness ==
    /\ UtmpDone("is_valid") /\ lead = 0
    /\ Len(file) >= 2
    /\ ValidEntry(file[1])
    /\ ~ValidEntry(file[Len(file)])
    /\ result.val = TRUE

----------------------------------------------------------------------------
(* C14: in every state of a backward scan the seek cursor lies within      *)
(* [0, file length] and is a multiple of the entry size away from          *)
(* end-of-file; the subtraction `seek -= ST_SIZE` is never applied to a    *)
(* cursor smaller than the entry size, also for a file whose length is not *)
(* a multiple of the entry size, and the scan ends in a result or an       *)
(* error, never in an abort.                                               *)
C14_CursorNeverUnderflows ==
    UtmpScan =>
        /\ seek \in 0..FileLen(file, lead)
        /\ (FileLen(file, lead) - seek) % UTMP_ST_SIZE = 0
        /\ pc = "loop" => ~Underflows(seek)
        /\ pc = "done" => result.kind \in {"ok", "err"}

----------------------------------------------------------------------------
(* Vocabulary of the Windows properties *)

\* a finished point lookup over an enumeration that succeeded
WinLookupDone ==
    /\ reader = "windows" /\ pc = "done"
    /\ op.kind \in {"search_uid", "search_username"}
    /\ accounts.rc = "NERR_Success"

\* the enumerated accounts with a recorded login
Logged == {i \in 1..Len(accounts.buf) : accounts.buf[i].last_logon # U32Zero}

Placeholder(i) == starts_with(accounts.buf[i].name, DefaultUser)

\* the enumerated accounts the lookup asks for
Searched ==
    {i \in 1..Len(accounts.buf) :
        IF op.kind = "search_uid"
            THEN accounts.buf[i].uid = op.uid
            ELSE accounts.buf[i].name = op.name}

\* the lookup returned the record of account i, with this login time
ReturnsAccount(i, login) ==
    /\ result.kind = "ok"
    /\ \E r \in result.val :
         /\ result.val = {r}
         /\ r.name = accounts.buf[i].name
         /\ r.uid = {accounts.buf[i].uid}
         /\ r.last_login = login

(* C13: in Windows::search_uid and search_username, when the searched      *)
(* account is enumerated: if some account has a recorded login and every   *)
(* account with a recorded login has a name starting with "defaultuser",   *)
(* the returned record carries the greatest last-logon value among those   *)
(* placeholder accounts; if an account whose name does not start with      *)
(* "defaultuser" has a recorded login, the returned record carries the     *)
(* searched account's own last-logon value (Never for 0).                  *)
C13_PlaceholderLoginSubstituted ==
    WinLookupDone =>
        \A i \in Searched :
            /\ (Logged # {} /\ \A k \in Logged : Placeholder(k))
                 => \E m \in Logged :
                      /\ \A k \in Logged :
                           ~U32Gt(accounts.buf[k].last_logon, accounts.buf[m].last_logon)
                      /\ ReturnsAccount(i, Last(accounts.buf[m].last_logon))
            /\ (\E k \in Logged : ~Placeholder(k))
                 => ReturnsAccount(i, IF i \in Logged
                                          THEN Last(accounts.buf[i].last_logon)
                                          ELSE Never)

\* a user without a login of its own is returned with the later of the
\* logins of two placeholder accounts
C13_Witness ==
    /\ WinLookupDone
    /\ \E i \in Searched, m, k \in Logged :
         /\ i \notin Logged /\ ~Placeholder(i)
         /\ \A j \in Logged : Placeholder(j)
         /\ U32Gt(accounts.buf[m].last_logon, accounts.buf[k].last_logon)
         /\ ReturnsAccount(i, Last(accounts.buf[m].last_logon))

(* C15: a Windows point lookup never aborts: for every enumeration,        *)
(* including an empty one and one in which no account has a recorded       *)
(* login, search_uid and search_username return the record of the searched *)
(* account (last_login = Never when its own last-logon value is 0 and no   *)
(* account has a recorded login) or the InvalidInput error when the        *)
(* account is not enumerated.                                              *)
C15_LookupNeverAborts ==
    WinLookupDone =>
        /\ result.kind # "panic"
        /\ Searched = {} => result = Err("InvalidInput")
        /\ (Searched # {} /\ Logged = {})
             => \E i \in Searched : ReturnsAccount(i, Never)

====
